---- MODULE Spec2Model ----
(***************************************************************************)
(* Model of the reference-resolution pipeline of ragbase                   *)
(* (src/ragbase/scrapper.py).  Text is modelled as a sequence of           *)
(* one-character strings, so that trimming, case folding, substring tests, *)
(* line splitting and percent-encoding are computed as the code computes   *)
(* them.                                                                   *)
(***************************************************************************)
EXTENDS Integers, Sequences, FiniteSets, TLC

VARIABLES pc, query, n, sentences, cleaned_query, direct_url, soup,
          search_results, pending, results, ret, calls, raw_text,
          chain, is_loaded, history, question, events,
          items, pdf_content_lines,
          loop_running, question_chain, received, full_response, documents

vars == <<pc, query, n, sentences, cleaned_query, direct_url, soup,
          search_results, pending, results, ret, calls, raw_text,
          chain, is_loaded, history, question, events,
          items, pdf_content_lines,
          loop_running, question_chain, received, full_response, documents>>

\* the state of pythonragbase.py and pdf_maker.py
otherVars == <<chain, is_loaded, history, question, events, items, pdf_content_lines,
               loop_running, question_chain, received, full_response, documents>>

\* the call of process_question in progress: whether an event loop runs in the
\* calling thread, the chain argument, the number of events received from the
\* stream, and the locals of ask_question_async
askVars == <<loop_running, question_chain, received, full_response, documents>>

----------------------------------------------------------------------------
(* Character-level helpers: Python str methods used by the code.           *)

UpperLetters == <<"A","B","C","D","E","F","G","H","I","J","K","L","M","N","O","P","Q","R","S","T","U","V","W","X","Y","Z">>

LowerLetters == <<"a","b","c","d","e","f","g","h","i","j","k","l","m","n","o","p","q","r","s","t","u","v","w","x","y","z">>

\* str.lower() on one character
LowerChar(c) ==
    IF \E i \in 1..26 : UpperLetters[i] = c
    THEN LowerLetters[CHOOSE i \in 1..26 : UpperLetters[i] = c]
    ELSE c

\* str.lower()
Lower(s) == [i \in 1..Len(s) |-> LowerChar(s[i])]

\* str.isspace() on one character (the whitespace TLA+ strings can hold)
IsSpace(c) == c \in {" ", "\t", "\n", "\r", "\f"}

\* the line boundaries of str.splitlines()
IsLineBreak(c) == c \in {"\n", "\r", "\f"}

SetMin(S) == CHOOSE x \in S : \A y \in S : x <= y

SetMax(S) == CHOOSE x \in S : \A y \in S : x >= y

\* str.strip()
Strip(s) ==
    LET keep == {i \in 1..Len(s) : ~IsSpace(s[i])}
    IN  IF keep = {} THEN <<>> ELSE SubSeq(s, SetMin(keep), SetMax(keep))

\* s.startswith(p)
StartsWith(s, p) == Len(p) <= Len(s) /\ SubSeq(s, 1, Len(p)) = p

\* s.endswith(p)
EndsWith(s, p) == Len(p) <= Len(s) /\ SubSeq(s, Len(s) - Len(p) + 1, Len(s)) = p

\* p in s
Contains(s, p) ==
    \E i \in 0..(Len(s) - Len(p)) : SubSeq(s, i + 1, i + Len(p)) = p

\* str.replace(a, b) for single characters
ReplaceChar(s, a, b) == [i \in 1..Len(s) |-> IF s[i] = a THEN b ELSE s[i]]

RECURSIVE Concat(_)
\* "".join(parts)
Concat(parts) ==
    IF parts = <<>> THEN <<>> ELSE Head(parts) \o Concat(Tail(parts))

RECURSIVE Join(_, _)
\* sep.join(parts)
Join(parts, sep) ==
    IF parts = <<>> THEN <<>>
    ELSE IF Len(parts) = 1 THEN parts[1]
    ELSE parts[1] \o sep \o Join(Tail(parts), sep)

RECURSIVE SplitNL(_)
\* str.split('\n'): always at least one piece, empty pieces kept
SplitNL(s) ==
    LET brk == {i \in 1..Len(s) : s[i] = "\n"}
    IN  IF brk = {} THEN <<s>>
        ELSE LET k == SetMin(brk)
             IN  <<SubSeq(s, 1, k - 1)>> \o SplitNL(SubSeq(s, k + 1, Len(s)))

RECURSIVE SplitLines(_)
\* str.splitlines(): "\r\n" is one boundary, no empty piece after the last one
SplitLines(s) ==
    LET brk == {i \in 1..Len(s) : IsLineBreak(s[i])}
    IN  IF s = <<>> THEN <<>>
        ELSE IF brk = {} THEN <<s>>
        ELSE LET k == SetMin(brk)
                 skip == IF s[k] = "\r" /\ k < Len(s) /\ s[k + 1] = "\n"
                         THEN k + 1 ELSE k
             IN  <<SubSeq(s, 1, k - 1)>> \o SplitLines(SubSeq(s, skip + 1, Len(s)))

\* [f(x) for x in xs if x.strip()] with f = strip
StrippedNonBlank(xs) ==
    LET stripped == [i \in 1..Len(xs) |-> Strip(xs[i])]
    IN  SelectSeq(stripped, LAMBDA x : x # <<>>)

\* xs[:k] for k >= 0
Take(xs, k) == SubSeq(xs, 1, IF k < Len(xs) THEN k ELSE Len(xs))

----------------------------------------------------------------------------
(* clean_search_query (scrapper.py 28-41)                                  *)

P_Sure == <<"S","u","r","e",","," ","h","e","r","e"," ","i","s"," ","t","h","e"," ","s","e","a","r","c","h"," ","p","h","r","a","s","e",":">>

P_Search == <<"S","e","a","r","c","h"," ","p","h","r","a","s","e",":">>

P_HeresSearch == <<"H","e","r","e","'","s"," ","t","h","e"," ","s","e","a","r","c","h"," ","p","h","r","a","s","e",":">>

P_HeresPhrase == <<"H","e","r","e","'","s"," ","t","h","e"," ","p","h","r","a","s","e",":">>

P_HereIsSearch == <<"H","e","r","e"," ","i","s"," ","t","h","e"," ","s","e","a","r","c","h"," ","p","h","r","a","s","e",":">>

P_HereIsPhrase == <<"H","e","r","e"," ","i","s"," ","t","h","e"," ","p","h","r","a","s","e",":">>

\* the alternatives of the regular expression of line 32, expanded
Preambles == {P_Sure, P_Search, P_HeresSearch, P_HeresPhrase, P_HereIsSearch, P_HereIsPhrase}

\* re.IGNORECASE match of one alternative at position 0
MatchesPreamble(s, p) == StartsWith(Lower(s), Lower(p))

HasPreamble(s) == \E p \in Preambles : MatchesPreamble(s, p)

RECURSIVE DropLeadingSpace(_)
\* the trailing \s* of the pattern
DropLeadingSpace(s) ==
    IF s # <<>> /\ IsSpace(Head(s)) THEN DropLeadingSpace(Tail(s)) ELSE s

\* re.sub(r"^(...)\s*", "", raw_text, flags=re.IGNORECASE): one match, at the start only
RemovePreamble(s) ==
    IF HasPreamble(s)
    THEN LET p == CHOOSE q \in Preambles : MatchesPreamble(s, q)
         IN  DropLeadingSpace(SubSeq(s, Len(p) + 1, Len(s)))
    ELSE s

\* the grave accent U+0060, which a TLA+ string literal cannot hold
Backquote == "U+0060"

EmphasisChars == {"*", "_", Backquote}

\* re.sub of line 34: every run of emphasis characters is deleted
RemoveEmphasis(s) == SelectSeq(s, LAMBDA c : c \notin EmphasisChars)

clean_search_query(raw) ==
    IF raw = <<>> THEN <<>>
    ELSE LET text  == RemoveEmphasis(RemovePreamble(raw))
             lines == StrippedNonBlank(SplitLines(text))
         IN  IF lines = <<>> THEN <<>> ELSE Strip(lines[1])

----------------------------------------------------------------------------
(* Parsed markup.  A soup is a record                                      *)
(*   table : "none", "disambigbox" (table with that id) or                 *)
(*           "ambox-disambiguation" (table with that class list)           *)
(*   div   : whether div.mw-parser-output exists                           *)
(*   kids  : the children of that div in document order, each             *)
(*           [tag, text, links]; a link is [text, href, nested], nested    *)
(*           meaning the anchor is not a direct child of its p or li       *)
(*   outer : the visible text outside the div                              *)

\* the bullet U+2022, which a TLA+ string literal cannot hold
Bullet == "U+2022"

\* c * k
Rep(c, k) == [i \in 1..k |-> c]

\* the direct children of div.mw-parser-output
ContainerKids(s) == IF s.div THEN s.kids ELSE <<>>

LinkTexts(k) == [i \in 1..Len(k.links) |-> k.links[i].text]

\* element.get_text() of a child of the container
KidText(k) ==
    IF k.tag = "ul" THEN Join(LinkTexts(k), <<"\n">>)
    ELSE k.text \o Concat(LinkTexts(k))

\* soup.get_text()
SoupText(s) ==
    LET ks == ContainerKids(s)
    IN  Join(<<s.outer>> \o [i \in 1..Len(ks) |-> KidText(ks[i])], <<"\n">>)

S_disambiguation == <<"d","i","s","a","m","b","i","g","u","a","t","i","o","n">>

S_may_refer_to == <<"m","a","y"," ","r","e","f","e","r"," ","t","o",":">>

\* lines 140-143: the four signals, OR-ed
IsDisambigDetected(s) ==
    \/ s.table = "disambigbox"
    \/ s.table = "ambox-disambiguation"
    \/ Contains(Lower(SoupText(s)), S_disambiguation)
    \/ Contains(SoupText(s), S_may_refer_to)

----------------------------------------------------------------------------
(* extract_manual_content (scrapper.py 230-260)                            *)

MinParagraphLen == 50

HeadingTags == {"h1", "h2", "h3"}

\* content_div.find_all(['p','h1','h2','h3'], limit=sentences*2); limit 0 is no limit
ManualElements(s, sents) ==
    LET ph == SelectSeq(ContainerKids(s), LAMBDA k : k.tag \in {"p"} \cup HeadingTags)
    IN  IF sents * 2 = 0 THEN ph ELSE Take(ph, sents * 2)

\* the body of the loop of lines 237-246 for one element
ManualAccept(acc, e) ==
    LET text == Strip(KidText(e))
    IN  IF e.tag = "p"
        THEN IF text # <<>> /\ Len(text) > MinParagraphLen THEN Append(acc, text) ELSE acc
        ELSE IF text # <<>> THEN Append(acc, <<"\n">> \o text \o <<"\n">>) ELSE acc

RECURSIVE ManualScan(_, _, _)
\* the loop of lines 237-248, with its break
ManualScan(elems, acc, sents) ==
    IF elems = <<>> THEN acc
    ELSE LET acc2 == ManualAccept(acc, Head(elems))
         IN  IF Len(acc2) >= sents THEN acc2
             ELSE ManualScan(Tail(elems), acc2, sents)

\* content_div.find('p') and its stripped text, lines 250-253
FirstParagraphTier(s, lines) ==
    LET ps == SelectSeq(ContainerKids(s), LAMBDA k : k.tag = "p")
    IN  IF lines = <<>> /\ ps # <<>> THEN <<Strip(KidText(ps[1]))>> ELSE lines

\* lines 255-258
RawTextTier(s, lines, sents) ==
    IF lines = <<>>
    THEN Take(StrippedNonBlank(SplitNL(SoupText(s))), sents)
    ELSE lines

extract_manual_content(s, sents) ==
    LET scanned == ManualScan(ManualElements(s, sents), <<>>, sents)
        tier_a  == FirstParagraphTier(s, scanned)
        tier_b  == RawTextTier(s, tier_a, sents)
    IN  Join(Take(tier_b, sents), <<"\n">>)

----------------------------------------------------------------------------
(* extract_disambiguation_content (scrapper.py 304-360)                    *)

MinOptionLen == 2

TruncateLen == 500

S_paren_disambiguation == <<"(","d","i","s","a","m","b","i","g","u","a","t","i","o","n",")">>

S_wiki_prefix == <<"/","w","i","k","i","/">>

S_may_refer_suffix == <<"'"," ","m","a","y"," ","r","e","f","e","r"," ","t","o",":">>

S_please_specify == <<"P","l","e","a","s","e"," ","s","p","e","c","i","f","y"," ","y","o","u","r"," ","q","u","e","r","y"," ","f","o","r"," ","m","o","r","e"," ","p","r","e","c","i","s","e"," ","r","e","s","u","l","t","s",".">>

S_generic_disambig == <<"T","h","i","s"," ","i","s"," ","a"," ","d","i","s","a","m","b","i","g","u","a","t","i","o","n"," ","p","a","g","e"," ","l","i","s","t","i","n","g"," ","a","r","t","i","c","l","e","s"," ","a","s","s","o","c","i","a","t","e","d"," ","w","i","t","h"," ","t","h","e"," ","s","a","m","e"," ","t","i","t","l","e",".">>

S_ellipsis == <<".",".",".">>

\* an li element seen as a candidate: its text, and no href attribute
ListItem(l) == [text |-> l.text, href |-> <<>>, nested |-> FALSE]

\* whether selector i of lines 310-313 matches, inside child k whose preceding
\* sibling has tag prev, the anchor l (selectors 1, 3, 4) or the li holding it
\* (selector 2)
SelectorMatches(i, prev, k, l) ==
    CASE i = 1 -> k.tag = "ul" /\ ~l.nested
      [] i = 2 -> k.tag = "ul"
      [] i = 3 -> k.tag = "p" /\ ~l.nested
      [] i = 4 -> k.tag = "ul" /\ prev = "p"

RECURSIVE KidsLinks(_, _, _)
\* the anchors of the children ks that selector i matches, in document order
KidsLinks(ks, prev, i) ==
    IF ks = <<>> THEN <<>>
    ELSE LET k == Head(ks)
         IN  SelectSeq(k.links, LAMBDA l : SelectorMatches(i, prev, k, l))
             \o KidsLinks(Tail(ks), k.tag, i)

\* soup.select(selector) for the four selectors of lines 309-314, in order;
\* selector 2 yields the li elements themselves
Selected(s, i) ==
    LET found == KidsLinks(ContainerKids(s), "", i)
    IN  IF i = 2 THEN [j \in 1..Len(found) |-> ListItem(found[j])] ELSE found

\* the condition of lines 323-327
OptionAccepted(e) ==
    LET text == Strip(e.text)
    IN  /\ text # <<>>
        /\ Len(text) > MinOptionLen
        /\ ~EndsWith(Lower(text), S_paren_disambiguation)
        /\ ~Contains(Lower(text), S_disambiguation)
        /\ StartsWith(e.href, S_wiki_prefix)
        /\ ~Contains(Lower(e.href), S_disambiguation)

RECURSIVE CollectOptions(_, _, _)
\* the inner loop of lines 318-331: the break is tested only after an append
CollectOptions(elems, options, k) ==
    IF elems = <<>> THEN options
    ELSE IF OptionAccepted(Head(elems))
         THEN LET o2 == Append(options, Strip(Head(elems).text))
              IN  IF Len(o2) >= k * 2 THEN o2
                  ELSE CollectOptions(Tail(elems), o2, k)
         ELSE CollectOptions(Tail(elems), options, k)

RECURSIVE FirstYield(_, _, _)
\* the outer loop of lines 316-333: the first selector that yields an option
FirstYield(s, i, k) ==
    IF i > 4 THEN <<>>
    ELSE LET options == CollectOptions(Selected(s, i), <<>>, k)
         IN  IF options # <<>> THEN options ELSE FirstYield(s, i + 1, k)

RECURSIVE Dedup_NoSeen(_, _, _)
\* Dedup without the membership test of line 338
Dedup_NoSeen(options, unique, k) ==
    IF options = <<>> THEN unique
    ELSE IF Len(unique) < k
         THEN Dedup_NoSeen(Tail(options), Append(unique, Head(options)), k)
         ELSE Dedup_NoSeen(Tail(options), unique, k)

RECURSIVE Dedup_NoCap(_, _, _)
\* Dedup without the cap of line 338
Dedup_NoCap(options, unique, k) ==
    IF options = <<>> THEN unique
    ELSE LET opt == Head(options)
             seen == {unique[j] : j \in 1..Len(unique)}
         IN  IF opt \notin seen
             THEN Dedup_NoCap(Tail(options), Append(unique, opt), k)
             ELSE Dedup_NoCap(Tail(options), unique, k)

RECURSIVE Dedup(_, _, _)
\* lines 335-340
Dedup(options, unique, k) ==
    IF options = <<>> THEN unique
    ELSE LET opt == Head(options)
             seen == {unique[j] : j \in 1..Len(unique)}
         IN  IF opt \notin seen /\ Len(unique) < k
             THEN Dedup(Tail(options), Append(unique, opt), k)
             ELSE Dedup(Tail(options), unique, k)

unique_options(s, k) == Dedup(FirstYield(s, 1, k), <<>>, k)

BulletLine(opt) == <<Bullet, " ">> \o opt

\* lines 342-347
OptionLines(q, unique) ==
    <<(<<"'">> \o q \o S_may_refer_suffix)>>
    \o [j \in 1..Len(unique) |-> BulletLine(unique[j])]
    \o << <<>>, S_please_specify >>

\* lines 348-358
NoOptionLines(s) ==
    LET ps == SelectSeq(ContainerKids(s), LAMBDA k : k.tag = "p")
    IN  IF s.div
        THEN IF ps # <<>>
             THEN LET full == KidText(ps[1])
                  IN  << Take(full, TruncateLen)
                         \o (IF Len(full) > TruncateLen THEN S_ellipsis ELSE <<>>) >>
             ELSE <<>>
        ELSE << S_generic_disambig >>

extract_disambiguation_content(s, q, k) ==
    LET unique == unique_options(s, k)
    IN  Join(IF unique # <<>> THEN OptionLines(q, unique) ELSE NoOptionLines(s), <<"\n">>)

----------------------------------------------------------------------------
(* Specification of clean_search_query over bounded raw inputs: a raw text *)
(* is a concatenation of at most MaxPieces pieces.                         *)

MaxPieces == 3

RawPieces ==
    { P_Search, Lower(P_Search), P_HeresPhrase,
      <<"*">>, <<"_">>, <<Backquote>>, <<" ">>, <<"\n">>, <<"\r">>,
      <<"c","a","t">> }

RECURSIVE SeqsUpTo(_, _)
\* all sequences over S of length at most k
SeqsUpTo(S, k) ==
    IF k = 0 THEN {<<>>}
    ELSE LET shorter == SeqsUpTo(S, k - 1)
         IN  shorter \cup {Append(t, x) : t \in shorter, x \in S}

RawTexts == {Concat(ps) : ps \in SeqsUpTo(RawPieces, MaxPieces)}

\* the variables a specification does not use
IdleFetch ==
    /\ query = <<>> /\ cleaned_query = <<>> /\ direct_url = <<>>
    /\ search_results = <<>> /\ pending = <<>> /\ results = <<>> /\ calls = <<>>

\* self.chain = None
NoChain == 0

\* no call of process_question is in progress
IdleAsk ==
    /\ loop_running = FALSE /\ question_chain = NoChain /\ received = 0
    /\ full_response = <<>> /\ documents = <<>>

IdleOther ==
    /\ chain = NoChain /\ is_loaded = FALSE /\ history = <<>>
    /\ question = <<>> /\ events = <<>>
    /\ items = <<>> /\ pdf_content_lines = <<>>
    /\ IdleAsk

IdleSoup == soup = <<>> /\ n = 0 /\ sentences = 0

InitClean ==
    /\ pc = "clean"
    /\ raw_text \in RawTexts
    /\ ret = <<>>
    /\ IdleFetch /\ IdleSoup /\ IdleOther

CleanStep ==
    /\ pc = "clean"
    /\ ret' = clean_search_query(raw_text)
    /\ pc' = "cleaned"
    /\ UNCHANGED otherVars
    /\ UNCHANGED <<search_results, query, n, sentences, cleaned_query, direct_url, soup,
                   pending, results, calls, raw_text>>

NextClean == CleanStep

SpecClean == InitClean /\ [][NextClean]_vars

\* C6: the result of clean_search_query is empty, or is one line without
\* emphasis characters that does not begin with a known preamble.
C6_Normalized ==
    pc = "cleaned" =>
        \/ ret = <<>>
        \/ /\ \A i \in 1..Len(ret) : ~IsLineBreak(ret[i])
           /\ \A i \in 1..Len(ret) : ret[i] \notin EmphasisChars
           /\ ~HasPreamble(ret)

\* the parts of C6 that do not concern the preamble
C6_SingleLineNoEmphasis ==
    pc = "cleaned" =>
        /\ \A i \in 1..Len(ret) : ~IsLineBreak(ret[i])
        /\ \A i \in 1..Len(ret) : ret[i] \notin EmphasisChars

----------------------------------------------------------------------------
(* Markup used as input.                                                   *)

P(text, links) == [tag |-> "p", text |-> text, links |-> links]

H2(text) == [tag |-> "h2", text |-> text, links |-> <<>>]

UL(links) == [tag |-> "ul", text |-> <<>>, links |-> links]

Markup(table, div, kids, outer) ==
    [table |-> table, div |-> div, kids |-> kids, outer |-> outer]

L_planet ==
    [text |-> <<"M","e","r","c","u","r","y"," ","(","p","l","a","n","e","t",")">>,
     href |-> <<"/","w","i","k","i","/","M","e","r","c","u","r","y","_","(","p","l","a","n","e","t",")">>,
     nested |-> FALSE]

L_element ==
    [text |-> <<" ","M","e","r","c","u","r","y"," ","(","e","l","e","m","e","n","t",")"," ">>,
     href |-> <<"/","w","i","k","i","/","M","e","r","c","u","r","y","_","(","e","l","e","m","e","n","t",")">>,
     nested |-> FALSE]

L_god ==
    [text |-> <<"M","e","r","c","u","r","y"," ","(","g","o","d",")">>,
     href |-> <<"/","w","i","k","i","/","M","e","r","c","u","r","y","_","(","m","y","t","h","o","l","o","g","y",")">>,
     nested |-> TRUE]

L_short ==
    [text |-> <<"H","g">>,
     href |-> <<"/","w","i","k","i","/","H","g">>,
     nested |-> FALSE]

L_dis_text ==
    [text |-> <<"M","e","r","c","u","r","y"," ","(","D","I","S","A","M","B","I","G","U","A","T","I","O","N",")">>,
     href |-> <<"/","w","i","k","i","/","M","e","r","c","u","r","y","_","(","o","t","h","e","r",")">>,
     nested |-> FALSE]

L_dis_href ==
    [text |-> <<"M","e","r","c","u","r","y"," ","F","M">>,
     href |-> <<"/","w","i","k","i","/","M","e","r","c","u","r","y","_","(","D","i","s","a","m","b","i","g","u","a","t","i","o","n",")">>,
     nested |-> FALSE]

L_external ==
    [text |-> <<"M","e","r","c","u","r","y"," ","I","n","c">>,
     href |-> <<"h","t","t","p","s",":","/","/","e","x","a","m","p","l","e",".","o","r","g","/","m","e","r","c","u","r","y">>,
     nested |-> FALSE]

LinkSet == {L_planet, L_element, L_god, L_short, L_dis_text, L_dis_href, L_external}

T_intro == <<"M","e","r","c","u","r","y"," ","c","o","m","m","o","n","l","y"," ","r","e","f","e","r","s"," ","t","o",":"," ">>

T_short == <<"S","h","o","r","t"," ","t","e","x","t",".">>

T_heading == <<"H","i","s","t","o","r","y">>

T_outer == <<"S","i","t","e"," ","n","o","t","i","c","e","\n","\n"," "," ","J","u","m","p"," ","t","o"," ","c","o","n","t","e","n","t"," ">>

\* a paragraph of exactly MinParagraphLen + 1 characters
T_long == Rep("x", MinParagraphLen + 1)

\* a paragraph of MinParagraphLen characters once trimmed
T_edge == <<" ">> \o Rep("x", MinParagraphLen) \o <<"\n">>

\* a paragraph longer than TruncateLen
T_huge == Rep("y", TruncateLen + 1)

----------------------------------------------------------------------------
(* Specification of extract_manual_content over bounded markup.            *)

MaxKids == 3

MaxSentences == 2

ManualKidSet ==
    { P(<<>>, <<>>), P(T_short, <<>>), P(T_edge, <<>>), P(T_long, <<>>),
      H2(T_heading), UL(<<L_planet>>) }

ManualSoups ==
    {Markup("none", TRUE, ks, o) :
        ks \in SeqsUpTo(ManualKidSet, MaxKids), o \in {<<>>, T_outer}}
    \cup {Markup("none", FALSE, <<>>, o) : o \in {<<>>, T_outer}}

InitManual ==
    /\ pc = "manual"
    /\ soup \in ManualSoups
    /\ sentences \in 0..MaxSentences
    /\ n = 0
    /\ ret = <<>>
    /\ raw_text = <<>>
    /\ IdleFetch /\ IdleOther

ManualStep ==
    /\ pc = "manual"
    /\ ret' = extract_manual_content(soup, sentences)
    /\ pc' = "manual_done"
    /\ UNCHANGED otherVars
    /\ UNCHANGED <<search_results, query, n, sentences, cleaned_query, direct_url, soup,
                   pending, results, calls, raw_text>>

NextManual == ManualStep

SpecManual == InitManual /\ [][NextManual]_vars

Paragraphs(s) == SelectSeq(ContainerKids(s), LAMBDA k : k.tag = "p")

Headings(s) == SelectSeq(ContainerKids(s), LAMBDA k : k.tag \in HeadingTags)

NoLongParagraph(s) ==
    \A i \in 1..Len(Paragraphs(s)) :
        Len(Strip(KidText(Paragraphs(s)[i]))) <= MinParagraphLen

RawLines(s) == StrippedNonBlank(SplitNL(SoupText(s)))

\* C10: with a sentence limit of at least 1, a document that has visible text
\* and a container without headings: if the container has paragraphs but none
\* longer than 50 characters the result is the first paragraph, and if it has
\* no paragraph the result is the first sentenceLimit non-blank raw text lines;
\* in both cases the result is not empty.
C10_FallbackTiers ==
    (pc = "manual_done" /\ sentences >= 1 /\ RawLines(soup) # <<>>
        /\ Headings(soup) = <<>>) =>
        /\ (Paragraphs(soup) # <<>> /\ NoLongParagraph(soup)) =>
              /\ ret = Strip(KidText(Paragraphs(soup)[1]))
              /\ ret # <<>>
        /\ (Paragraphs(soup) = <<>>) =>
              /\ ret = Join(Take(RawLines(soup), sentences), <<"\n">>)
              /\ ret # <<>>

----------------------------------------------------------------------------
(* Specification of extract_disambiguation_content over bounded markup.    *)

MaxLinks == 3

MaxOptions == 3

S_Mercury == <<"M","e","r","c","u","r","y">>

\* a disambiguation page with ten candidate links, the first of them repeated
TenLinks ==
    UL(<< [text |-> <<"M","e","r","c","u","r","y"," ","(","p","l","a","n","e","t",")">>, href |-> <<"/","w","i","k","i","/","M","e","r","c","u","r","y","_","(","p","l","a","n","e","t",")">>, nested |-> FALSE],
         [text |-> <<"M","e","r","c","u","r","y"," ","(","p","l","a","n","e","t",")">>, href |-> <<"/","w","i","k","i","/","M","e","r","c","u","r","y","_","(","p","l","a","n","e","t",")">>, nested |-> FALSE],
         [text |-> <<"M","e","r","c","u","r","y"," ","(","e","l","e","m","e","n","t",")">>, href |-> <<"/","w","i","k","i","/","M","e","r","c","u","r","y","_","(","e","l","e","m","e","n","t",")">>, nested |-> FALSE],
         [text |-> <<"M","e","r","c","u","r","y"," ","(","g","o","d",")">>, href |-> <<"/","w","i","k","i","/","M","e","r","c","u","r","y","_","(","g","o","d",")">>, nested |-> FALSE],
         [text |-> <<"M","e","r","c","u","r","y"," ","R","e","c","o","r","d","s">>, href |-> <<"/","w","i","k","i","/","M","e","r","c","u","r","y","_","R","e","c","o","r","d","s">>, nested |-> FALSE],
         [text |-> <<"M","e","r","c","u","r","y"," ","(","d","i","s","a","m","b","i","g","u","a","t","i","o","n",")">>, href |-> <<"/","w","i","k","i","/","M","e","r","c","u","r","y","_","(","d","i","s","a","m","b","i","g","u","a","t","i","o","n",")">>, nested |-> FALSE],
         [text |-> <<"M","e","r","c","u","r","y"," ","F","M">>, href |-> <<"/","w","i","k","i","/","M","e","r","c","u","r","y","_","F","M">>, nested |-> FALSE],
         [text |-> <<"M","e","r","c","u","r","y",","," ","N","e","v","a","d","a">>, href |-> <<"/","w","i","k","i","/","M","e","r","c","u","r","y",",","_","N","e","v","a","d","a">>, nested |-> FALSE],
         [text |-> <<"M","e","r","c","u","r","y"," ","(","c","a","r",")">>, href |-> <<"/","w","i","k","i","/","M","e","r","c","u","r","y","_","(","c","a","r",")">>, nested |-> FALSE],
         [text |-> <<"M","e","r","c","u","r","y"," ","P","r","i","z","e">>, href |-> <<"/","w","i","k","i","/","M","e","r","c","u","r","y","_","P","r","i","z","e">>, nested |-> FALSE] >>)

TenLinkPage ==
    Markup("disambigbox", TRUE, <<P(T_intro, <<>>), TenLinks>>, <<>>)

\* a disambiguation page whose list repeats its first link four times
RepeatedLinkPage ==
    Markup("disambigbox", TRUE,
           <<UL(<<L_planet, L_planet, L_planet, L_planet, L_element>>)>>, <<>>)

DisambigSoups ==
    {Markup("disambigbox", TRUE, pre \o <<UL(ls)>>, <<>>) :
        pre \in {<<>>, <<P(T_intro, <<L_planet>>)>>, <<P(T_huge, <<>>)>>},
        ls \in SeqsUpTo(LinkSet, MaxLinks)}
    \cup {TenLinkPage, RepeatedLinkPage,
          Markup("disambigbox", TRUE, <<>>, T_outer),
          Markup("disambigbox", FALSE, <<>>, T_outer)}

InitDisambig ==
    /\ pc = "extract"
    /\ soup \in DisambigSoups
    /\ n \in 0..MaxOptions
    /\ cleaned_query = S_Mercury
    /\ sentences = 0
    /\ ret = <<>>
    /\ raw_text = <<>>
    /\ query = <<>> /\ direct_url = <<>> /\ search_results = <<>>
    /\ pending = <<>> /\ results = <<>> /\ calls = <<>>
    /\ IdleOther

ExtractStep ==
    /\ pc = "extract"
    /\ ret' = extract_disambiguation_content(soup, cleaned_query, n)
    /\ pc' = "extracted"
    /\ UNCHANGED otherVars
    /\ UNCHANGED <<search_results, query, n, sentences, cleaned_query, direct_url, soup,
                   pending, results, calls, raw_text>>

NextDisambig == ExtractStep

SpecDisambig == InitDisambig /\ [][NextDisambig]_vars

\* the bulleted lines of a content block, and their labels
BulletedLines(content) ==
    SelectSeq(SplitNL(content), LAMBDA ln : StartsWith(ln, <<Bullet, " ">>))

BulletLabels(content) ==
    LET bl == BulletedLines(content)
    IN  [j \in 1..Len(bl) |-> SubSeq(bl[j], 3, Len(bl[j]))]

\* C4: extract_disambiguation_content emits at most n bulleted lines, and no
\* emitted label contains "disambiguation" in any letter case.
C4_AtMostNNoDisambiguation ==
    pc = "extracted" =>
        /\ Len(BulletedLines(ret)) <= n
        /\ \A j \in 1..Len(BulletLabels(ret)) :
              ~Contains(Lower(BulletLabels(ret)[j]), S_disambiguation)

\* the ten-link page with n = 3 yields exactly 3 bulleted lines
C4_Witness ==
    /\ pc = "extracted"
    /\ soup = TenLinkPage
    /\ n = 3
    /\ Len(BulletedLines(ret)) = 3

----------------------------------------------------------------------------
(* fetch_top_wikipedia_results (scrapper.py 115-228) and its helpers       *)

WikiBase == <<"h","t","t","p","s",":","/","/","e","n",".","w","i","k","i","p","e","d","i","a",".","o","r","g","/","w","i","k","i","/">>

S_artillery == <<"a","r","t","i","l","l","e","r","y">>

S_none == <<"n","o","n","e">>

S_null == <<"n","u","l","l">>

S_disambig_title_suffix == <<" ","(","D","i","s","a","m","b","i","g","u","a","t","i","o","n",")">>

S_fallback_head == <<"W","i","k","i","p","e","d","i","a"," ","c","o","n","t","e","n","t"," ","f","o","r"," ","'">>

S_fallback_tail ==
    <<"'"," ","i","s"," ","c","u","r","r","e","n","t","l","y"," ","u","n","a","v","a","i","l",
      "a","b","l","e","."," ","\n","\n","T","h","i","s"," ","m","a","y"," ","b","e"," ","d","u",
      "e"," ","t","o",":","\n",Bullet," ","N","e","t","w","o","r","k"," ","c","o","n","n","e",
      "c","t","i","v","i","t","y"," ","i","s","s","u","e","s","\n",Bullet," ","W","i","k","i",
      "p","e","d","i","a"," ","A","P","I"," ","l","i","m","i","t","a","t","i","o","n","s"," ",
      " ","\n",Bullet," ","T","h","e"," ","p","a","g","e"," ","n","o","t"," ","e","x","i","s",
      "t","i","n","g","\n","\n","P","l","e","a","s","e"," ","t","r","y",":","\n","1","."," ",
      "C","h","e","c","k","i","n","g"," ","y","o","u","r"," ","i","n","t","e","r","n","e","t",
      " ","c","o","n","n","e","c","t","i","o","n","\n","2","."," ","U","s","i","n","g"," ","a",
      " ","d","i","f","f","e","r","e","n","t"," ","s","e","a","r","c","h"," ","t","e","r","m",
      "\n","3","."," ","T","r","y","i","n","g"," ","a","g","a","i","n"," ","l","a","t","e","r",
      "\n","\n","I","n"," ","t","h","e"," ","m","e","a","n","t","i","m","e",","," ","y","o","u",
      " ","c","a","n"," ","v","i","s","i","t"," ","W","i","k","i","p","e","d","i","a"," ","d",
      "i","r","e","c","t","l","y",":"," ","h","t","t","p","s",":","/","/","e","n",".","w","i",
      "k","i","p","e","d","i","a",".","o","r","g","/","w","i","k","i","/">>

SearchOptionCap == 8

Digits == {"0","1","2","3","4","5","6","7","8","9"}

\* the characters urllib.parse.quote leaves alone (safe = "/")
QuoteSafe ==
    {UpperLetters[i] : i \in 1..26} \cup {LowerLetters[i] : i \in 1..26}
    \cup Digits \cup {"_", ".", "-", "~", "/"}

\* the percent-encoding of one character
QuoteChar(c) ==
    IF c \in QuoteSafe THEN <<c>>
    ELSE CASE c = " "  -> <<"%","2","0">>
           [] c = "\t" -> <<"%","0","9">>
           [] c = "\n" -> <<"%","0","A">>
           [] c = "'"  -> <<"%","2","7">>
           [] c = "("  -> <<"%","2","8">>
           [] c = ")"  -> <<"%","2","9">>
           [] c = ","  -> <<"%","2","C">>
           [] c = ":"  -> <<"%","3","A">>

\* urllib.parse.quote
Quote(s) == Concat([i \in 1..Len(s) |-> QuoteChar(s[i])])

\* a query argument: a str (isStr) with text s, or an object that is not a str
StrQuery(s) == [isStr |-> TRUE, s |-> s]

NonStrQuery == [isStr |-> FALSE, s |-> <<>>]

\* the condition of line 117 without the strip()
IsInvalidQuery_NoTrim(q) ==
    \/ ~q.isStr
    \/ q.s = <<>>
    \/ Lower(q.s) \in {S_none, S_null, <<>>}

\* the condition of line 117
IsInvalidQuery(q) ==
    \/ ~q.isStr
    \/ q.s = <<>>
    \/ Lower(Strip(q.s)) \in {S_none, S_null, <<>>}

\* lines 117-121 without the strip() of line 121
CleanedQuery_NoStrip(q) == IF IsInvalidQuery(q) THEN S_artillery ELSE q.s

\* lines 117-121
CleanedQuery(q) == Strip(IF IsInvalidQuery(q) THEN S_artillery ELSE q.s)

\* line 126
SafeTitle(cq) == ReplaceChar(cq, " ", "_")

\* line 127
DirectUrl(cq) == WikiBase \o Quote(SafeTitle(cq))

Doc(title, content, url, dis) ==
    [title |-> title, content |-> content, source_url |-> url,
     is_disambiguation |-> dis]

\* lines 282-302
get_fallback_content(q) ==
    << Doc(q,
           S_fallback_head \o q \o S_fallback_tail \o ReplaceChar(q, " ", "_"),
           WikiBase \o ReplaceChar(q, " ", "_"),
           FALSE) >>

\* lines 362-371
create_simple_disambiguation_content(q, options) ==
    Join(<<(<<"'">> \o q \o S_may_refer_suffix)>>
         \o [j \in 1..Len(Take(options, SearchOptionCap)) |-> BulletLine(options[j])]
         \o << <<>>, S_please_specify >>,
         <<"\n">>)

(* Exceptions the external calls raise, all subclasses of Exception:       *)
(* "RequestException" (timeout, connection error), "DisambiguationError",  *)
(* "PageError", "OtherError" (any other, e.g. a decoding error).           *)
Exceptions == {"RequestException", "DisambiguationError", "PageError", "OtherError"}

\* what requests.get and wikipedia.search raise
NetworkExceptions == {"RequestException", "OtherError"}

\* what wikipedia.page raises
PageExceptions == Exceptions

\* what wikipedia.summary raises once wikipedia.page has answered
SummaryExceptions == {"RequestException", "PageError"}

\* what the lookups of a search candidate raise
CandidatePageExceptions == {"DisambiguationError", "PageError", "OtherError"}

CandidateSummaryExceptions == {"RequestException"}

\* line 180 catching only requests' exceptions
DirectHandler_Narrow(e) == IF e = "RequestException" THEN "search" ELSE "raised"

\* except Exception of line 180: where control goes when e is raised in 130-178
DirectHandler(e) == IF e \in Exceptions THEN "search" ELSE "raised"

\* line 168 catching only PageError
PageHandler_OnlyPageError(e) ==
    IF e = "PageError" THEN "manual" ELSE DirectHandler(e)

\* except (DisambiguationError, PageError) of line 168, else the enclosing handler
PageHandler(e) ==
    IF e \in {"DisambiguationError", "PageError"} THEN "manual" ELSE DirectHandler(e)

\* line 224 catching only requests' exceptions
SearchHandler_Narrow(e) == IF e = "RequestException" THEN "fallback" ELSE "raised"

\* except Exception of line 224
SearchHandler(e) == IF e \in Exceptions THEN "fallback" ELSE "raised"

\* except DisambiguationError of line 208, except Exception of line 217
CandidateHandler(e) ==
    IF e = "DisambiguationError" THEN "disambiguation"
    ELSE IF e \in Exceptions THEN "skip" ELSE SearchHandler(e)

\* line 277 answering an exception by another attempt
ManualHandler_Retry(e) == IF e \in Exceptions THEN "manual_get" ELSE "raised"

\* except Exception of line 277
ManualHandler(e) == IF e \in Exceptions THEN "none" ELSE "raised"

\* one entry of the log of external calls
Call(name, arg, outcome, title) ==
    [call |-> name, arg |-> arg, outcome |-> outcome, title |-> title]

----------------------------------------------------------------------------
(* Inputs and answers of the external services.                            *)

MaxN == 2

Queries ==
    { NonStrQuery,
      StrQuery(<<>>),
      StrQuery(<<" ", " ">>),
      StrQuery(<<"N","o","n","e">>),
      StrQuery(<<" ","N","U","L","L","\n">>),
      StrQuery(<<" ","N","e","w"," ","Y","o","r","k"," ">>),
      StrQuery(<<"M","e","r","c","u","r","y"," ","(","p","l","a","n","e","t",")">>) }

T_hatnote == <<"F","o","r"," ","o","t","h","e","r"," ","u","s","e","s",","," ","s","e","e"," ","M","e","r","c","u","r","y"," ","(","d","i","s","a","m","b","i","g","u","a","t","i","o","n",")",".">>

\* a normal article
ArticlePage ==
    Markup("none", TRUE, <<P(T_long, <<>>), H2(T_heading), P(T_short, <<>>)>>, T_outer)

\* a normal article whose hatnote mentions a disambiguation page
HatnotePage ==
    Markup("none", TRUE, <<P(T_hatnote, <<L_planet>>), P(T_long, <<>>)>>, T_outer)

\* a normal article that begins with an empty paragraph and has no long one
EmptyLeadPage ==
    Markup("none", TRUE, <<P(<<>>, <<>>), P(T_short, <<>>)>>, T_outer)

\* a success status with empty markup
EmptyPage == Markup("none", FALSE, <<>>, <<>>)

\* disambiguation pages: no accepted link and no paragraph; no container;
\* a paragraph longer than TruncateLen and no accepted link
BareDisambigPage ==
    Markup("ambox-disambiguation", TRUE, <<UL(<<L_short, L_external>>)>>, <<>>)

NoContainerDisambigPage == Markup("disambigbox", FALSE, <<>>, T_outer)

HugeDisambigPage ==
    Markup("disambigbox", TRUE, <<P(T_huge, <<>>), UL(<<L_dis_text>>)>>, <<>>)

Pages ==
    { ArticlePage, HatnotePage, EmptyLeadPage, EmptyPage,
      TenLinkPage, BareDisambigPage, NoContainerDisambigPage, HugeDisambigPage }

FailureStatuses == {"404"}

S_summary == <<"A","r","t","i","l","l","e","r","y"," ","i","s"," ","a"," ","c","l","a","s","s"," ","o","f"," ","h","e","a","v","y"," ","m","i","l","i","t","a","r","y"," ","r","a","n","g","e","d"," ","w","e","a","p","o","n","s",".">>

\* what wikipedia.page answers: the canonical title and URL of a page
PageAnswer(title) ==
    [title |-> title, url |-> WikiBase \o Quote(ReplaceChar(title, " ", "_"))]

DirectAnswers ==
    { PageAnswer(<<"A","r","t","i","l","l","e","r","y">>),
      PageAnswer(<<"M","e","r","c","u","r","y"," ","(","p","l","a","n","e","t",")">>) }

SearchTitles ==
    { <<"M","e","r","c","u","r","y"," ","(","p","l","a","n","e","t",")">>,
      <<"M","e","r","c","u","r","y"," ","(","D","i","s","a","m","b","i","g","u","a","t","i","o","n",")">>,
      <<"N","e","w"," ","Y","o","r","k">> }

NoRepeat(t) == \A i, j \in 1..Len(t) : i # j => t[i] # t[j]

\* what wikipedia.search(q, results=limit) answers: at most limit distinct titles
SearchAnswers(limit) ==
    {t \in SeqsUpTo(SearchTitles, Cardinality(SearchTitles)) :
        NoRepeat(t) /\ Len(t) <= limit}

NineOptions ==
    << <<"T","o","p","i","c"," ","1">>,
      <<"T","o","p","i","c"," ","2">>,
      <<"T","o","p","i","c"," ","3">>,
      <<"T","o","p","i","c"," ","4">>,
      <<"T","o","p","i","c"," ","5">>,
      <<"T","o","p","i","c"," ","6">>,
      <<"T","o","p","i","c"," ","7">>,
      <<"T","o","p","i","c"," ","8">>,
      <<"T","o","p","i","c"," ","9">> >>

\* the options a DisambiguationError carries
OptionLists == { <<L_planet.text, L_god.text>>, NineOptions }

----------------------------------------------------------------------------
(* The cascade as a state machine.  pc is the position in the function;    *)
(* "return_k" is the return statement of line k, "raised" an exception     *)
(* leaving the function.  calls logs the external calls with their outcome.*)

ReturnPoints ==
    {"return_155", "return_167", "return_178", "return_192", "return_194",
     "return_222", "return_228"}

Returned == pc \in ReturnPoints

Init ==
    /\ pc = "start"
    /\ query \in Queries
    /\ n \in 0..MaxN
    /\ sentences \in {1, MaxSentences}
    /\ cleaned_query = <<>>
    /\ direct_url = <<>>
    /\ soup = EmptyPage
    /\ pending = <<>>
    /\ results = <<>>
    /\ ret = <<>>
    /\ calls = <<>>
    /\ raw_text = <<>>
    /\ search_results = <<>>
    /\ IdleOther

\* lines 117-121 for each query of Queries
CleanedQueries == [q \in Queries |-> CleanedQuery(q)]

\* lines 117-127
Validate ==
    /\ pc = "start"
    /\ cleaned_query' = CleanedQueries[query]
    /\ direct_url' = DirectUrl(cleaned_query')
    /\ pc' = "direct_get"
    /\ UNCHANGED otherVars
    /\ UNCHANGED <<search_results, query, n, sentences, soup, pending, results, ret, calls, raw_text>>

\* lines 145-155
DisambiguationDoc(s) ==
    Doc(cleaned_query \o S_disambig_title_suffix,
        extract_disambiguation_content(s, cleaned_query, n),
        direct_url, TRUE)

\* lines 170-176 and 271-276
ManualDoc(s) ==
    Doc(cleaned_query, extract_manual_content(s, sentences), direct_url, FALSE)

\* lines 130-155: the GET, the parse and the disambiguation test
DirectGet ==
    /\ pc = "direct_get"
    /\ \/ \E e \in NetworkExceptions :
            /\ calls' = Append(calls, Call("GET", direct_url, e, <<>>))
            /\ pc' = DirectHandler(e)
            /\ UNCHANGED <<soup, results, ret>>
       \/ \E st \in FailureStatuses :
            /\ calls' = Append(calls, Call("GET", direct_url, st, <<>>))
            /\ pc' = "search"
            /\ UNCHANGED <<soup, results, ret>>
       \/ \E s \in Pages :
            /\ calls' = Append(calls, Call("GET", direct_url, "200", <<>>))
            /\ soup' = s
            /\ IF IsDisambigDetected(s)
               THEN /\ results' = <<DisambiguationDoc(s)>>
                    /\ ret' = results'
                    /\ pc' = "return_155"
               ELSE /\ pc' = "direct_page"
                    /\ UNCHANGED <<results, ret>>
    /\ UNCHANGED otherVars
    /\ UNCHANGED <<search_results, query, n, sentences, cleaned_query, direct_url, pending, raw_text>>

\* lines 168-181 without the return of line 178
DirectPageFailure_NoReturn(e) ==
    IF PageHandler(e) = "manual"
    THEN /\ results' = <<ManualDoc(soup)>>
         /\ pc' = "search"
         /\ UNCHANGED ret
    ELSE /\ pc' = PageHandler(e)
         /\ UNCHANGED <<results, ret>>

\* lines 168-181: an exception e of wikipedia.page or wikipedia.summary
DirectPageFailure(e) ==
    IF PageHandler(e) = "manual"
    THEN /\ results' = <<ManualDoc(soup)>>
         /\ ret' = results'
         /\ pc' = "return_178"
    ELSE /\ pc' = PageHandler(e)
         /\ UNCHANGED <<results, ret>>

\* lines 157-178
DirectPage ==
    /\ pc = "direct_page"
    /\ \/ \E a \in DirectAnswers :
            /\ calls' = calls \o
                  << Call("page", SafeTitle(cleaned_query), "ok", a.title),
                     Call("summary", a.title, "ok", <<>>) >>
            /\ results' = <<Doc(a.title, S_summary, a.url, FALSE)>>
            /\ ret' = results'
            /\ pc' = "return_167"
       \/ \E e \in PageExceptions :
            /\ calls' = Append(calls, Call("page", SafeTitle(cleaned_query), e, <<>>))
            /\ DirectPageFailure(e)
       \/ \E a \in DirectAnswers, e \in SummaryExceptions :
            /\ calls' = calls \o
                  << Call("page", SafeTitle(cleaned_query), "ok", a.title),
                     Call("summary", a.title, e, <<>>) >>
            /\ DirectPageFailure(e)
    /\ UNCHANGED otherVars
    /\ UNCHANGED <<search_results, query, n, sentences, cleaned_query, direct_url, soup, pending, raw_text>>

\* line 196 without the condition
ValidResults_NoFilter(hits) == hits

\* line 196
ValidResults(hits) ==
    SelectSeq(hits, LAMBDA res : ~Contains(Lower(res), S_paren_disambiguation))

\* line 197 without the slice
FirstN_All(valid, k) == valid

\* line 197: valid_results[:n]
FirstN(valid, k) == Take(valid, k)

\* lines 183-197 and 224-228
Search ==
    /\ pc = "search"
    /\ \/ \E e \in NetworkExceptions :
            /\ calls' = Append(calls, Call("search", cleaned_query, e, <<>>))
            /\ IF SearchHandler(e) = "fallback"
               THEN /\ ret' = get_fallback_content(cleaned_query)
                    /\ pc' = "return_228"
               ELSE /\ pc' = SearchHandler(e)
                    /\ UNCHANGED ret
            /\ UNCHANGED <<pending, search_results>>
       \/ \E hits \in SearchAnswers(n * 2) :
            /\ calls' = Append(calls, Call("search", cleaned_query, "ok", <<>>))
            /\ search_results' = hits
            /\ IF hits = <<>>
               THEN /\ pc' = "manual_get"
                    /\ UNCHANGED <<pending, ret>>
               ELSE /\ pending' = FirstN(ValidResults(hits), n)
                    /\ IF pending' = <<>>
                       THEN ret' = results /\ pc' = "return_222"
                       ELSE pc' = "candidates" /\ UNCHANGED ret
    /\ UNCHANGED otherVars
    /\ UNCHANGED <<query, n, sentences, cleaned_query, direct_url, soup, results, raw_text>>

\* lines 190-194 with manual_extract_from_url (262-280)
ManualGet ==
    /\ pc = "manual_get"
    /\ \/ \E e \in NetworkExceptions :
            /\ calls' = Append(calls, Call("GET", direct_url, e, <<>>))
            /\ IF ManualHandler(e) = "none"
               THEN /\ ret' = get_fallback_content(cleaned_query)
                    /\ pc' = "return_194"
               ELSE /\ pc' = ManualHandler(e)
                    /\ UNCHANGED ret
       \/ \E st \in FailureStatuses :
            /\ calls' = Append(calls, Call("GET", direct_url, st, <<>>))
            /\ ret' = get_fallback_content(cleaned_query)
            /\ pc' = "return_194"
       \/ \E s \in Pages :
            /\ calls' = Append(calls, Call("GET", direct_url, "200", <<>>))
            /\ ret' = <<ManualDoc(s)>>
            /\ pc' = "return_192"
    /\ UNCHANGED otherVars
    /\ UNCHANGED <<search_results, query, n, sentences, cleaned_query, direct_url, soup, pending,
                   results, raw_text>>

\* lines 208-216
SearchDisambiguationDoc(res, options) ==
    Doc(res \o S_disambig_title_suffix,
        create_simple_disambiguation_content(cleaned_query, Take(options, SearchOptionCap)),
        WikiBase \o ReplaceChar(res, " ", "_"),
        TRUE)

\* lines 208-219: an exception e of wikipedia.page or wikipedia.summary for res
CandidateFailure(res, e) ==
    CASE CandidateHandler(e) = "disambiguation" ->
            \E options \in OptionLists :
                /\ results' = Append(results, SearchDisambiguationDoc(res, options))
                /\ pc' = IF Tail(pending) = <<>> THEN "return_222" ELSE "candidates"
      [] CandidateHandler(e) = "skip" ->
            /\ results' = results
            /\ pc' = IF Tail(pending) = <<>> THEN "return_222" ELSE "candidates"
      [] OTHER ->
            /\ results' = results
            /\ pc' = CandidateHandler(e)

\* lines 197-222: one iteration of the loop, and the return after the last one
Candidate ==
    /\ pc = "candidates"
    /\ LET res == Head(pending)
           a   == PageAnswer(res)
       IN  \/ /\ calls' = calls \o
                    << Call("page", res, "ok", a.title),
                       Call("summary", a.title, "ok", <<>>) >>
              /\ results' = Append(results, Doc(a.title, S_summary, a.url, FALSE))
              /\ pc' = IF Tail(pending) = <<>> THEN "return_222" ELSE "candidates"
           \/ \E e \in CandidatePageExceptions :
              /\ calls' = Append(calls, Call("page", res, e, <<>>))
              /\ CandidateFailure(res, e)
           \/ \E e \in CandidateSummaryExceptions :
              /\ calls' = calls \o
                    << Call("page", res, "ok", a.title),
                       Call("summary", a.title, e, <<>>) >>
              /\ CandidateFailure(res, e)
    /\ pending' = Tail(pending)
    /\ ret' = IF pc' = "return_222" THEN results' ELSE ret
    /\ UNCHANGED otherVars
    /\ UNCHANGED <<search_results, query, n, sentences, cleaned_query, direct_url, soup, raw_text>>

Next == Validate \/ DirectGet \/ DirectPage \/ Search \/ ManualGet \/ Candidate

Spec == Init /\ [][Next]_vars

----------------------------------------------------------------------------
(* Properties of fetch_top_wikipedia_results.                              *)

S_wiki_artillery == <<"/","w","i","k","i","/","a","r","t","i","l","l","e","r","y">>

S_currently_unavailable == <<"c","u","r","r","e","n","t","l","y"," ","u","n","a","v","a","i","l","a","b","l","e">>

\* the outcome of the direct GET, once it has been made
DirectOutcome == IF calls = <<>> THEN "none" ELSE calls[1].outcome

\* the direct GET answered 200 and the page was detected as a disambiguation page
DirectDisambiguation == DirectOutcome = "200" /\ IsDisambigDetected(soup)

IsWhitespaceOnly(q) == q.isStr /\ q.s # <<>> /\ Strip(q.s) = <<>>

\* C1: the returned list is never empty.
C1_NeverEmpty == Returned => Len(ret) >= 1

\* C2: no exception leaves fetch_top_wikipedia_results.
C2_NeverRaises == pc # "raised"

\* the direct GET, the page lookup and the search call have all raised, and the
\* call has returned
C2_Witness ==
    /\ Returned
    /\ \E i, j, k \in 1..Len(calls) :
          /\ calls[i].call = "GET" /\ calls[i].outcome = "200"
          /\ calls[j].call = "page" /\ calls[j].outcome = "OtherError"
          /\ calls[k].call = "search" /\ calls[k].outcome \in Exceptions

\* C3: when the directly fetched page is a disambiguation page the result is one
\* document, marked as disambiguation, whose bulleted lines are the extracted
\* options, each once.
C3_DirectDisambiguation ==
    (Returned /\ DirectDisambiguation) =>
        /\ Len(ret) = 1
        /\ ret[1].is_disambiguation
        /\ BulletLabels(ret[1].content) = unique_options(soup, n)
        /\ NoRepeat(BulletLabels(ret[1].content))

\* the ten-link page, which repeats a label, with n = 2
C3_Witness ==
    /\ Returned /\ DirectDisambiguation
    /\ soup = TenLinkPage /\ n = 2
    /\ Len(BulletLabels(ret[1].content)) = 2

\* C5: every returned document has content.
C5_ContentNeverEmpty ==
    Returned => \A i \in 1..Len(ret) : ret[i].content # <<>>

\* C7 as stated: a whitespace-only query yields one document whose source_url
\* ends with /wiki/artillery and which is not a disambiguation document.
C7_ScenarioA_Original ==
    (Returned /\ IsWhitespaceOnly(query)) =>
        /\ Len(ret) = 1
        /\ EndsWith(ret[1].source_url, S_wiki_artillery)
        /\ ~ret[1].is_disambiguation

\* C7 amended: for a whitespace-only query the direct address ends with
\* /wiki/artillery; every return other than the search list (line 222) is one
\* document, which is not a disambiguation document unless the direct page
\* was detected as one (line 155), and whose source_url ends with
\* /wiki/artillery unless it is the page-API document (line 167).
C7_ScenarioA ==
    (Returned /\ IsWhitespaceOnly(query)) =>
        /\ cleaned_query = S_artillery
        /\ EndsWith(direct_url, S_wiki_artillery)
        /\ calls[1].call = "GET" /\ calls[1].arg = direct_url
        /\ pc # "return_222" =>
              /\ Len(ret) = 1
              /\ ret[1].is_disambiguation = (pc = "return_155")
              /\ pc # "return_167" => EndsWith(ret[1].source_url, S_wiki_artillery)

\* a whitespace-only query answered by the page API: one document, not a
\* disambiguation document, with the URL the page API gave
C7_Witness ==
    /\ IsWhitespaceOnly(query)
    /\ pc = "return_167"
    /\ Len(ret) = 1
    /\ ~ret[1].is_disambiguation
    /\ ~EndsWith(ret[1].source_url, S_wiki_artillery)

\* the page call of the direct lookup answered, with this title
DirectPageAnswered(title) ==
    /\ Len(calls) >= 3
    /\ calls[2].call = "page" /\ calls[2].outcome = "ok" /\ calls[2].title = title
    /\ calls[3].call = "summary" /\ calls[3].outcome = "ok"

\* C8 as stated: when the direct page exists and is a normal article (no
\* disambiguation box), the result is one non-disambiguation document whose
\* title is the canonical title answered by the page API.
C8_ScenarioB_Original ==
    (Returned /\ DirectOutcome = "200" /\ soup.table = "none") =>
        /\ Len(ret) = 1
        /\ ~ret[1].is_disambiguation
        /\ DirectPageAnswered(ret[1].title)

\* C8 amended: when the direct page answers 200, is not detected as a
\* disambiguation page and the page and summary lookups succeed, the result is
\* one non-disambiguation document whose title and source_url are those the
\* page API answered.
C8_ScenarioB ==
    (Returned /\ DirectOutcome = "200" /\ ~IsDisambigDetected(soup)
        /\ Len(calls) >= 3 /\ calls[2].outcome = "ok" /\ calls[3].outcome = "ok") =>
        /\ pc = "return_167"
        /\ Len(ret) = 1
        /\ ~ret[1].is_disambiguation
        /\ DirectPageAnswered(ret[1].title)
        /\ ret[1].source_url = PageAnswer(ret[1].title).url

\* the canonical title differs from the query
C8_Witness ==
    /\ pc = "return_167"
    /\ DirectPageAnswered(ret[1].title)
    /\ ret[1].title # cleaned_query
    /\ Lower(ret[1].title) = Lower(cleaned_query)

\* C9: when the direct GET and the search call both raise, the result is the
\* placeholder alone: its content contains "currently unavailable", it is not a
\* disambiguation document and its source_url is built from the cleaned query.
C9_ScenarioD ==
    (Len(calls) = 2 /\ calls[1].call = "GET" /\ calls[1].outcome \in Exceptions
        /\ calls[2].call = "search" /\ calls[2].outcome \in Exceptions) =>
        /\ pc = "return_228"
        /\ Len(ret) = 1
        /\ Contains(ret[1].content, S_currently_unavailable)
        /\ ~ret[1].is_disambiguation
        /\ ret[1].title = cleaned_query
        /\ ret[1].source_url = WikiBase \o ReplaceChar(cleaned_query, " ", "_")

\* both calls raised for a query with an inner space
C9_Witness ==
    /\ pc = "return_228"
    /\ Len(calls) = 2
    /\ calls[1].outcome \in Exceptions /\ calls[2].outcome \in Exceptions
    /\ Contains(cleaned_query, <<" ">>)

\* the positions in the log of the calls of one kind
CallIndexes(name) == {i \in 1..Len(calls) : calls[i].call = name}

\* the position of the search call, 0 before it
SearchIndex ==
    IF CallIndexes("search") = {} THEN 0 ELSE SetMin(CallIndexes("search"))

\* the search call raised, or answered no title
SearchCameUpEmpty ==
    /\ SearchIndex > 0
    /\ calls[SearchIndex].outcome \in Exceptions \/ search_results = <<>>

\* C15: when the search call raises or answers no title, one GET of the direct
\* address (the manual-extraction pass) follows it before the call returns, so
\* the placeholder is returned only after that pass.
C15_ManualPassBeforePlaceholder ==
    (Returned /\ SearchCameUpEmpty) =>
        \E i \in (SearchIndex + 1)..Len(calls) :
            /\ calls[i].call = "GET"
            /\ calls[i].arg = direct_url
            /\ CallIndexes("GET") \cap (SearchIndex + 1)..Len(calls) = {i}

\* C16: a direct GET answering 200 with empty markup is handled like a page
\* that was not found: the next step is the search call, with no page lookup.
C16_EmptyMarkupAsNotFound ==
    (DirectOutcome = "200" /\ soup = EmptyPage) =>
        /\ pc \notin {"direct_page", "return_155", "return_167", "return_178"}
        /\ pc = "search" \/ SearchIndex = 2

\* the title a search-path disambiguation document was built for
CandidateTitleOf(doc) ==
    Take(doc.title, Len(doc.title) - Len(S_disambig_title_suffix))

\* C17: the placeholder's source_url is the direct address that was requested
\* first, and the source_url of a search-path disambiguation document is the
\* direct address of its candidate title.
C17_PlaceholderUrl ==
    /\ pc \in {"return_194", "return_228"} =>
          /\ ret[1].source_url = direct_url
          /\ calls[1].arg = direct_url
    /\ pc = "return_222" =>
          \A i \in 1..Len(ret) :
              ret[i].is_disambiguation =>
                  ret[i].source_url = DirectUrl(CandidateTitleOf(ret[i]))

\* the calls made after the search call
CandidateCalls ==
    IF SearchIndex = 0 THEN <<>> ELSE SubSeq(calls, SearchIndex + 1, Len(calls))

\* the titles looked up after the search call, in the order of the lookups
LookedUp ==
    LET lookups == SelectSeq(CandidateCalls, LAMBDA c : c.call = "page")
    IN  [i \in 1..Len(lookups) |-> lookups[i].arg]

\* the titles of a search answer that do not contain "(disambiguation)"
Surviving(hits) ==
    SelectSeq(hits, LAMBDA t : ~Contains(Lower(t), S_paren_disambiguation))

\* the title and kind of the documents the logged lookups cs call for
RECURSIVE ExpectedDocs(_)
ExpectedDocs(cs) ==
    IF cs = <<>> THEN <<>>
    ELSE LET c == Head(cs)
         IN  IF c.call # "page" THEN ExpectedDocs(Tail(cs))
             ELSE IF c.outcome = "DisambiguationError"
             THEN <<[title |-> c.arg \o S_disambig_title_suffix, dis |-> TRUE]>>
                  \o ExpectedDocs(Tail(cs))
             ELSE IF c.outcome # "ok" THEN ExpectedDocs(Tail(cs))
             ELSE IF cs[2].outcome = "ok"
             THEN <<[title |-> c.title, dis |-> FALSE]>>
                  \o ExpectedDocs(Tail(Tail(cs)))
             ELSE IF cs[2].outcome = "DisambiguationError"
             THEN <<[title |-> c.arg \o S_disambig_title_suffix, dis |-> TRUE]>>
                  \o ExpectedDocs(Tail(Tail(cs)))
             ELSE ExpectedDocs(Tail(Tail(cs)))

\* C18: in the search fallback no title containing "(disambiguation)" is looked
\* up; the titles looked up, followed by those still to come, are the first n
\* remaining titles in rank order; the list holds, in that order, one
\* non-disambiguation document per successful lookup and one disambiguation
\* document with at most 8 options per DisambiguationError, and nothing for a
\* lookup that raised anything else; the loop goes on after each of them.
C18_SearchFallbackOrder ==
    pc \in {"candidates", "return_222"} =>
        /\ LookedUp \o pending = Take(Surviving(search_results), n)
        /\ \A i \in 1..Len(LookedUp) :
              ~Contains(Lower(LookedUp[i]), S_paren_disambiguation)
        /\ [i \in 1..Len(results) |->
               [title |-> results[i].title, dis |-> results[i].is_disambiguation]]
               = ExpectedDocs(CandidateCalls)
        /\ \A i \in 1..Len(results) :
              results[i].is_disambiguation =>
                  Len(BulletLabels(results[i].content)) <= 8
        /\ pc = "return_222" => ret = results /\ pending = <<>>

\* a search answer with a "(Disambiguation)" title; the first candidate raised
\* DisambiguationError with nine options, the second was resolved
C18_Witness ==
    /\ pc = "return_222"
    /\ Len(search_results) = 3
    /\ Surviving(search_results) # search_results
    /\ Len(ret) = 2
    /\ ret[1].is_disambiguation
    /\ Len(BulletLabels(ret[1].content)) = 8
    /\ ~ret[2].is_disambiguation

\* the answers of the direct GET that lines 140-143 take for a disambiguation
\* page
DetectedPages == {s \in Pages : IsDisambigDetected(s)}

\* the exception the page or summary lookup of the direct page raised, if any
DirectApiFailure ==
    IF Len(calls) >= 2 /\ calls[2].call = "page" /\ calls[2].outcome # "ok"
    THEN calls[2].outcome
    ELSE IF Len(calls) >= 3 /\ calls[2].call = "page"
            /\ calls[3].call = "summary" /\ calls[3].outcome # "ok"
    THEN calls[3].outcome
    ELSE "none"

\* what the direct lookup has yielded: a disambiguation page, a resolved page
\* (by the page API, or by manual extraction after PageError or
\* DisambiguationError), or neither
DirectYield ==
    IF DirectOutcome # "200" THEN "none"
    ELSE IF soup \in DetectedPages THEN "Disambiguation"
    ELSE IF DirectPageAnswered(calls[IF Len(calls) >= 2 THEN 2 ELSE 1].title)
    THEN "Resolved"
    ELSE IF DirectApiFailure \in {"PageError", "DisambiguationError"}
    THEN "Resolved"
    ELSE "none"

\* C19: once the direct lookup has yielded a resolved or a disambiguation page
\* the call has returned a list of one document, which is not the placeholder,
\* and the log holds the direct GET and at most one page lookup: no search call,
\* no candidate lookup, no second GET.
C19_ShortCircuit ==
    DirectYield # "none" =>
        /\ pc \in {"return_155", "return_167", "return_178"}
        /\ Len(ret) = 1
        /\ ret # get_fallback_content(cleaned_query)
        /\ CallIndexes("search") = {}
        /\ CallIndexes("GET") = {1}
        /\ CallIndexes("page") \subseteq {2}
        /\ Len(calls) <= 3

\* the page API resolved the direct page
C19_Witness ==
    /\ DirectYield = "Resolved"
    /\ pc = "return_167"
    /\ Len(calls) = 3
    /\ ret[1].title = calls[2].title

\* C20: after a direct GET answering 200 for a page not detected as a
\* disambiguation page, a PageError or DisambiguationError of the page or
\* summary lookup makes the call return one non-disambiguation document titled
\* with the cleaned query, with the direct address and the content
\* extract_manual_content gives for the markup already fetched, with no other
\* GET and no search call; any other exception is followed by the search call.
C20_ManualOnPageError ==
    (DirectOutcome = "200" /\ soup \notin DetectedPages /\ DirectApiFailure # "none") =>
        IF DirectApiFailure \in {"PageError", "DisambiguationError"}
        THEN /\ pc = "return_178"
             /\ ret = <<Doc(cleaned_query, extract_manual_content(soup, sentences),
                            direct_url, FALSE)>>
             /\ CallIndexes("GET") = {1}
             /\ CallIndexes("search") = {}
        ELSE /\ pc \notin {"return_155", "return_167", "return_178"}
             /\ \/ pc = "search" /\ SearchIndex = 0
                \/ /\ SearchIndex > 1
                   /\ calls[SearchIndex - 1].outcome = DirectApiFailure

\* the page lookup answered and the summary lookup raised PageError
C20_Witness ==
    /\ pc = "return_178"
    /\ DirectApiFailure = "PageError"
    /\ Len(calls) = 3 /\ calls[3].call = "summary"
    /\ soup = ArticlePage
    /\ ret[1].content # <<>>

----------------------------------------------------------------------------
(* save_wikipedia_results_to_pdf (pdf_maker.py): the lines handed to the   *)
(* PDF writer for the documents fetch_top_wikipedia_results returned.      *)

MaxItems == 3

DigitSeq == <<"0","1","2","3","4","5","6","7","8","9">>

RECURSIVE IntToStr(_)
\* str(k) for k >= 0, as the f-string of line 252 formats i
IntToStr(k) ==
    IF k < 10 THEN <<DigitSeq[k + 1]>>
    ELSE IntToStr(k \div 10) \o <<DigitSeq[(k % 10) + 1]>>

\* line 256
S_block_trailer == <<"\n", "\n">>

\* lines 252-256 without the empty line of line 254
PdfBlock_NoBlank(i, item) ==
    << IntToStr(i) \o <<".", " ">> \o item.title, item.source_url >>
    \o SplitNL(item.content)
    \o << S_block_trailer >>

\* lines 252-256: what one iteration of the loop appends
PdfBlock(i, item) ==
    << IntToStr(i) \o <<".", " ">> \o item.title, item.source_url, <<>> >>
    \o SplitNL(item.content)
    \o << S_block_trailer >>

RECURSIVE PdfLines(_, _)
\* lines 250-256: the loop over enumerate(its, start=i)
PdfLines(its, i) ==
    IF its = <<>> THEN <<>>
    ELSE PdfBlock(i, Head(its)) \o PdfLines(Tail(its), i + 1)

\* documents fetch_top_wikipedia_results returns: a page-API document, the
\* placeholder, a search-path disambiguation document, a manual document with
\* a heading, and a manual document without content
ItemDocs ==
    { Doc(PageAnswer(S_Mercury).title, S_summary, PageAnswer(S_Mercury).url, FALSE),
      get_fallback_content(S_artillery)[1],
      Doc(S_Mercury \o S_disambig_title_suffix,
          create_simple_disambiguation_content(S_Mercury, <<L_planet.text, L_god.text>>),
          WikiBase \o S_Mercury, TRUE),
      Doc(S_artillery, extract_manual_content(ArticlePage, MaxSentences),
          DirectUrl(S_artillery), FALSE),
      Doc(S_artillery, <<>>, DirectUrl(S_artillery), FALSE) }

ItemLists == SeqsUpTo(ItemDocs, MaxItems)

InitPdf ==
    /\ pc = "pdf"
    /\ items \in ItemLists
    /\ pdf_content_lines = <<>>
    /\ chain = NoChain /\ is_loaded = FALSE /\ history = <<>>
    /\ question = <<>> /\ events = <<>>
    /\ IdleAsk
    /\ ret = <<>>
    /\ raw_text = <<>>
    /\ IdleFetch /\ IdleSoup

\* lines 246-265, after the fetch of line 245 answered items
save_wikipedia_results_to_pdf ==
    /\ pc = "pdf"
    /\ IF items = <<>>
       THEN /\ pc' = "pdf_none"
            /\ UNCHANGED pdf_content_lines
       ELSE /\ pdf_content_lines' = PdfLines(items, 1)
            /\ pc' = "pdf_saved"
    /\ UNCHANGED <<chain, is_loaded, history, question, events, items>>
    /\ UNCHANGED askVars
    /\ UNCHANGED <<search_results, query, n, sentences, cleaned_query, direct_url, soup,
                   pending, results, ret, calls, raw_text>>

NextPdf == save_wikipedia_results_to_pdf

SpecPdf == InitPdf /\ [][NextPdf]_vars

\* the lines of the content of a document
ContentLines(item) == SplitNL(item.content)

RECURSIVE BlockStart(_)
\* where the block of the i-th document begins: each block before it takes a
\* heading, an address, an empty line, its content lines and a closing line
BlockStart(i) ==
    IF i = 1 THEN 1
    ELSE BlockStart(i - 1) + 4 + Len(ContentLines(items[i - 1]))

\* C11: the i-th document is rendered as the consecutive lines "<i>. <title>",
\* its source_url, an empty line and its content split at line breaks; the
\* blocks follow one another in list order, each closed by one separator line,
\* and nothing else is in the list.
C11_RenderBlocks ==
    pc = "pdf_saved" =>
        /\ \A i \in 1..Len(items) :
              LET b == BlockStart(i)
                  c == ContentLines(items[i])
              IN  /\ b + 3 + Len(c) <= Len(pdf_content_lines)
                  /\ pdf_content_lines[b] = IntToStr(i) \o <<".", " ">> \o items[i].title
                  /\ pdf_content_lines[b + 1] = items[i].source_url
                  /\ pdf_content_lines[b + 2] = <<>>
                  /\ SubSeq(pdf_content_lines, b + 3, b + 2 + Len(c)) = c
        /\ Len(pdf_content_lines) = BlockStart(Len(items) + 1) - 1

\* three documents, the second with a content of several lines
C11_Witness ==
    /\ pc = "pdf_saved"
    /\ Len(items) = 3
    /\ Len(ContentLines(items[2])) > 3
    /\ items[1] # items[3]
    /\ pdf_content_lines[BlockStart(3)] = <<"3", ".", " ">> \o items[3].title

----------------------------------------------------------------------------
(* process_question (pythonragbase.py).  The chain is an external          *)
(* collaborator: what it streams for a question is an input, a finite      *)
(* sequence of events, each a str, a list of source documents or an object *)
(* of another type.  asyncio.run (line 52) refuses to start when an event  *)
(* loop already runs in the calling thread; otherwise the coroutine of     *)
(* lines 40-50 runs on a new loop and is suspended at each event of the    *)
(* stream, where other callbacks of that loop may run.                     *)

MaxEvents == 3

\* a question argument: a str with text s, or an object that is not a str
StrQuestion(s) == [isStr |-> TRUE, s |-> s]

NonStrQuestion == [isStr |-> FALSE, s |-> <<>>]

S_msg_question_empty == <<"Q","u","e","s","t","i","o","n"," ","m","u","s","t"," ","b","e"," ","a"," ","n","o","n","-","e","m","p","t","y"," ","s","t","r","i","n","g">>

S_msg_question_short == <<"Q","u","e","s","t","i","o","n"," ","m","u","s","t"," ","b","e"," ","a","t"," ","l","e","a","s","t"," ","2"," ","c","h","a","r","a","c","t","e","r","s"," ","l","o","n","g">>

\* an exception leaving a function, and a value returned by it
Raise(exc, msg) == [exc |-> exc, msg |-> msg, value |-> <<>>]

Return(value) == [exc |-> "none", msg |-> <<>>, value |-> value]

\* lines 34-38: the message of the ValueError raised for q, <<>> if none is
QuestionError(q) ==
    IF ~q.isStr \/ q.s = <<>> THEN S_msg_question_empty
    ELSE IF Len(Strip(q.s)) < 2 THEN S_msg_question_short
    ELSE <<>>

StrEvent(text) == [kind |-> "str", val |-> text]

ListEvent(docs) == [kind |-> "list", val |-> docs]

OtherEvent == [kind |-> "other", val |-> <<>>]

S_msg_running_loop == <<"a","s","y","n","c","i","o",".","r","u","n","(",")"," ","c","a","n","n","o","t"," ","b","e"," ","c","a","l","l","e","d"," ","f","r","o","m"," ","a"," ","r","u","n","n","i","n","g"," ","e","v","e","n","t"," ","l","o","o","p">>

\* lines 34-38 and the test asyncio.run makes before it runs the coroutine
\* (line 52): the exception process_question raises before the chain is
\* invoked, running telling whether an event loop runs in the calling thread
QuestionRefusal(q, running) ==
    IF QuestionError(q) # <<>> THEN Raise("ValueError", QuestionError(q))
    ELSE IF running THEN Raise("RuntimeError", S_msg_running_loop)
    ELSE Return(<<>>)

\* lines 45-46
ResponseAfter(event, response) ==
    IF event.kind = "str" THEN response \o event.val ELSE response

\* lines 47-48
DocumentsAfter(event, docs) ==
    IF event.kind = "list" THEN docs \o event.val ELSE docs

Questions ==
    { NonStrQuestion,
      StrQuestion(<<>>),
      StrQuestion(<<" ", " ", " ">>),
      StrQuestion(<<"a">>),
      StrQuestion(<<" ", "a", "\n">>),
      StrQuestion(<<"a", "b">>),
      StrQuestion(<<"W","h","a","t"," ","i","s"," ","a","r","t","i","l","l","e","r","y","?">>) }

Events ==
    { StrEvent(<<"T","h","e"," ">>),
      StrEvent(<<"a","n","s","w","e","r">>),
      StrEvent(<<>>),
      ListEvent(<<"doc1">>),
      ListEvent(<<"doc2", "doc1">>),
      OtherEvent }

EventStreams == SeqsUpTo(Events, MaxEvents)

\* the argument chain of process_question
TheChain == 1

InitQuestion ==
    /\ pc = "question"
    /\ question \in Questions
    /\ events \in EventStreams
    /\ loop_running \in BOOLEAN
    /\ question_chain = TheChain
    /\ received = 0 /\ full_response = <<>> /\ documents = <<>>
    /\ chain = NoChain /\ is_loaded = FALSE /\ history = <<>>
    /\ items = <<>> /\ pdf_content_lines = <<>>
    /\ ret = <<>>
    /\ raw_text = <<>>
    /\ IdleFetch /\ IdleSoup

\* lines 33-52: the validation, and asyncio.run either raising or starting the
\* coroutine, which invokes the chain (line 44)
ProcessQuestion ==
    /\ pc = "question"
    /\ LET out == QuestionRefusal(question, loop_running)
       IN  IF out.exc # "none"
           THEN /\ ret' = out
                /\ pc' = "asked"
                /\ UNCHANGED <<calls, loop_running, full_response, documents>>
           ELSE /\ calls' = << Call("ask_question", question.s, "ok", <<>>) >>
                /\ loop_running' = TRUE
                /\ full_response' = <<>>
                /\ documents' = <<>>
                /\ pc' = "streaming"
                /\ UNCHANGED ret
    /\ UNCHANGED <<chain, is_loaded, history, question, events, items, pdf_content_lines,
                   question_chain, received>>
    /\ UNCHANGED <<search_results, query, n, sentences, cleaned_query, direct_url, soup,
                   pending, results, raw_text>>

\* lines 44-48: the coroutine receives the next event of the stream, in a call
\* of process_question made directly or by SimpleRAG.ask_question
QuestionEvent ==
    /\ pc \in {"streaming", "rag_streaming"}
    /\ received < Len(events)
    /\ received' = received + 1
    /\ full_response' = ResponseAfter(events[received + 1], full_response)
    /\ documents' = DocumentsAfter(events[received + 1], documents)
    /\ UNCHANGED <<chain, is_loaded, history, question, events, items, pdf_content_lines,
                   loop_running, question_chain>>
    /\ UNCHANGED <<pc, search_results, query, n, sentences, cleaned_query, direct_url, soup,
                   pending, results, ret, calls, raw_text>>

\* lines 50-57: the stream has ended, the loop is closed and the dict returned
QuestionReturn ==
    /\ pc = "streaming"
    /\ received = Len(events)
    /\ ret' = Return([answer |-> full_response, sources |-> documents])
    /\ loop_running' = FALSE
    /\ pc' = "asked"
    /\ UNCHANGED <<chain, is_loaded, history, question, events, items, pdf_content_lines,
                   question_chain, received, full_response, documents>>
    /\ UNCHANGED <<search_results, query, n, sentences, cleaned_query, direct_url, soup,
                   pending, results, calls, raw_text>>

NextQuestion == ProcessQuestion \/ QuestionEvent \/ QuestionReturn

SpecQuestion == InitQuestion /\ [][NextQuestion]_vars

\* the values of the events of one kind, in arrival order
ValuesOf(kind) ==
    LET sel == SelectSeq(events, LAMBDA e : e.kind = kind)
    IN  [i \in 1..Len(sel) |-> sel[i].val]

\* the question is empty, not a string, or shorter than 2 characters once
\* trimmed
TooShort(q) == ~q.isStr \/ q.s = <<>> \/ Len(Strip(q.s)) < 2

\* C14: a question that is empty, not a string or shorter than 2 characters
\* after trimming raises ValueError without the chain being invoked; any other
\* question returns a dict with exactly the keys "answer", the concatenation in
\* arrival order of the string events, and "sources", the concatenation in
\* arrival order of the list events.
C14_ProcessQuestion ==
    pc = "asked" =>
        IF TooShort(question)
        THEN /\ ret.exc = "ValueError"
             /\ calls = <<>>
        ELSE /\ ret.exc = "none"
             /\ DOMAIN ret.value = {"answer", "sources"}
             /\ ret.value.answer = Concat(ValuesOf("str"))
             /\ ret.value.sources = Concat(ValuesOf("list"))
             /\ Len(calls) = 1

----------------------------------------------------------------------------
(* process_pdf and the SimpleRAG object of create_rag_system               *)
(* (pythonragbase.py).  history logs the calls made on the object in the   *)
(* order they were made, each with its argument, its outcome and the side  *)
(* effects it had; the outcome of an ask_question whose stream has not      *)
(* ended is "pending".  While it is, the callbacks of the event loop of     *)
(* asyncio.run may call load_pdf and ask_question on the same object.       *)

MaxOps == 3

\* a path argument: a str with text s, or an object that is not a str
StrPath(s) == [isStr |-> TRUE, s |-> s]

NonStrPath == [isStr |-> FALSE, s |-> <<>>]

F_doc_pdf == <<"d","o","c",".","p","d","f">>

F_doc_PDF == <<"d","o","c",".","P","D","F">>

F_notes_txt == <<"n","o","t","e","s",".","t","x","t">>

F_missing_pdf == <<"m","i","s","s","i","n","g",".","p","d","f">>

F_missing_txt == <<"m","i","s","s","i","n","g",".","t","x","t">>

\* the files for which os.path.exists answers True
ExistingFiles == {F_doc_pdf, F_doc_PDF, F_notes_txt}

Paths ==
    { NonStrPath, StrPath(<<>>), StrPath(F_missing_pdf), StrPath(F_missing_txt),
      StrPath(F_notes_txt), StrPath(F_doc_PDF), StrPath(F_doc_pdf) }

S_pdf_suffix == <<".", "p", "d", "f">>

S_msg_path_empty == <<"P","D","F"," ","p","a","t","h"," ","m","u","s","t"," ","b","e"," ","a"," ","n","o","n","-","e","m","p","t","y"," ","s","t","r","i","n","g">>

S_msg_not_found == <<"P","D","F"," ","f","i","l","e"," ","n","o","t"," ","f","o","u","n","d",":"," ">>

S_msg_not_pdf == <<"F","i","l","e"," ","m","u","s","t"," ","b","e"," ","a"," ","P","D","F"," ","d","o","c","u","m","e","n","t">>

S_msg_load_first == <<"P","l","e","a","s","e"," ","l","o","a","d"," ","a"," ","P","D","F"," ","f","i","r","s","t"," ","u","s","i","n","g"," ","l","o","a","d","_","p","d","f","(",")">>

\* lines 14-21 with the suffix test before the existence test
PathError_SuffixFirst(path) ==
    IF ~path.isStr \/ path.s = <<>>
    THEN Raise("ValueError", S_msg_path_empty)
    ELSE IF ~EndsWith(Lower(path.s), S_pdf_suffix)
    THEN Raise("ValueError", S_msg_not_pdf)
    ELSE IF path.s \notin ExistingFiles
    THEN Raise("FileNotFoundError", S_msg_not_found \o path.s)
    ELSE Return(<<>>)

\* lines 14-21: the exception the validation of the path raises, if any
PathError(path) ==
    IF ~path.isStr \/ path.s = <<>>
    THEN Raise("ValueError", S_msg_path_empty)
    ELSE IF path.s \notin ExistingFiles
    THEN Raise("FileNotFoundError", S_msg_not_found \o path.s)
    ELSE IF ~EndsWith(Lower(path.s), S_pdf_suffix)
    THEN Raise("ValueError", S_msg_not_pdf)
    ELSE Return(<<>>)

\* lines 23-29: the side effects of process_pdf, in order
PipelineSteps == <<"rmtree", "ingest", "create_llm", "create_retriever", "create_chain">>

\* the steps that may raise (rmtree is called with ignore_errors=True)
FailingSteps == {"ingest", "create_chain"}

\* the steps done when step fail raises, all of them when fail is "none"
StepsUntil(fail) ==
    IF fail = "none" THEN PipelineSteps
    ELSE SubSeq(PipelineSteps, 1, CHOOSE i \in 1..Len(PipelineSteps) : PipelineSteps[i] = fail)

\* lines 12-31: the outcome of process_pdf and its side effects, fail being the
\* step of the pipeline that raises
process_pdf(path, fail) ==
    IF PathError(path).exc # "none"
    THEN [outcome |-> PathError(path), effects |-> <<>>]
    ELSE IF fail # "none"
    THEN [outcome |-> Raise("OtherError", <<>>), effects |-> StepsUntil(fail)]
    ELSE [outcome |-> Return("chain"), effects |-> StepsUntil(fail)]

\* line 66 resetting the chain when process_pdf raises
ChainAfter_ResetOnError(out, c, fresh) ==
    IF out.exc = "none" THEN fresh ELSE NoChain

\* line 66: the assignment takes place only when process_pdf has returned
ChainAfter(out, c, fresh) ==
    IF out.exc = "none" THEN fresh ELSE c

\* line 67 placed before the call of process_pdf
LoadedAfter_SetFirst(out, l) == TRUE

\* line 67: reached only when process_pdf has returned
LoadedAfter(out, l) == IF out.exc = "none" THEN TRUE ELSE l

\* the condition of line 71; a chain object is truthy
NeedsLoad(l, c) == ~l \/ c = NoChain

\* one entry of history
Op(name, arg, out, effects) ==
    [op |-> name, arg |-> arg, exc |-> out.exc, msg |-> out.msg,
     value |-> out.value, effects |-> effects]

\* what the chain streams for a question put to the SimpleRAG object
RagEvents == << StrEvent(<<"a","n","s","w","e","r">>), ListEvent(<<"doc1">>) >>

InitRag ==
    /\ pc = "rag"
    /\ chain = NoChain
    /\ is_loaded = FALSE
    /\ history = <<>>
    /\ question = <<>> /\ events = <<>>
    /\ IdleAsk
    /\ items = <<>> /\ pdf_content_lines = <<>>
    /\ ret = <<>>
    /\ raw_text = <<>>
    /\ IdleFetch /\ IdleSoup

\* lines 65-68, called by the program or, while a question is being answered,
\* by a callback of the event loop
LoadPdf ==
    /\ pc \in {"rag", "rag_streaming"}
    /\ Len(history) < MaxOps
    /\ \E path \in Paths, fail \in {"none"} \cup FailingSteps :
          LET r == process_pdf(path, fail)
          IN  /\ chain' = ChainAfter(r.outcome, chain, Len(history) + 1)
              /\ is_loaded' = LoadedAfter(r.outcome, is_loaded)
              /\ history' = Append(history,
                    Op("load_pdf", path,
                       IF r.outcome.exc = "none" THEN Return(TRUE) ELSE r.outcome,
                       r.effects))
    /\ UNCHANGED <<question, events, items, pdf_content_lines>>
    /\ UNCHANGED askVars
    /\ UNCHANGED <<pc, search_results, query, n, sentences, cleaned_query, direct_url, soup,
                   pending, results, ret, calls, raw_text>>

\* the outcome of a call that has not returned yet
Pending == [exc |-> "pending", msg |-> <<>>, value |-> <<>>]

\* lines 70-74 with lines 33-52 of process_question: the call raises, or the
\* coroutine is started with self.chain; running tells whether the caller runs
\* in an event loop of its own
AskQuestion ==
    /\ pc \in {"rag", "rag_streaming"}
    /\ Len(history) < MaxOps
    /\ \E q \in Questions, running \in BOOLEAN :
          IF NeedsLoad(is_loaded, chain)
          THEN /\ history' = Append(history,
                     Op("ask_question", q, Raise("ValueError", S_msg_load_first), <<>>))
               /\ UNCHANGED <<pc, question, events>>
               /\ UNCHANGED askVars
          ELSE LET out == QuestionRefusal(q, loop_running \/ running)
               IN  IF out.exc # "none"
                   THEN /\ history' = Append(history,
                              Op("ask_question", q, out, <<"process_question">>))
                        /\ UNCHANGED <<pc, question, events>>
                        /\ UNCHANGED askVars
                   ELSE /\ history' = Append(history,
                              Op("ask_question", q, Pending, <<"process_question">>))
                        /\ question' = q
                        /\ events' = RagEvents
                        /\ question_chain' = chain
                        /\ loop_running' = TRUE
                        /\ received' = 0
                        /\ full_response' = <<>>
                        /\ documents' = <<>>
                        /\ pc' = "rag_streaming"
    /\ UNCHANGED <<chain, is_loaded, items, pdf_content_lines>>
    /\ UNCHANGED <<search_results, query, n, sentences, cleaned_query, direct_url, soup,
                   pending, results, ret, calls, raw_text>>

\* the place in history of the ask_question call whose stream has not ended
PendingIndex == CHOOSE k \in 1..Len(history) : history[k].exc = "pending"

\* lines 50-57 and 74: the stream has ended, the loop is closed and
\* ask_question returns the dict
AskReturn ==
    /\ pc = "rag_streaming"
    /\ received = Len(events)
    /\ history' = [history EXCEPT ![PendingIndex] =
                      Op("ask_question", question,
                         Return([answer |-> full_response, sources |-> documents]),
                         <<"process_question">>)]
    /\ pc' = "rag"
    /\ question' = <<>>
    /\ events' = <<>>
    /\ loop_running' = FALSE
    /\ question_chain' = NoChain
    /\ received' = 0
    /\ full_response' = <<>>
    /\ documents' = <<>>
    /\ UNCHANGED <<chain, is_loaded, items, pdf_content_lines>>
    /\ UNCHANGED <<search_results, query, n, sentences, cleaned_query, direct_url, soup,
                   pending, results, ret, calls, raw_text>>

NextRag == LoadPdf \/ AskQuestion \/ QuestionEvent \/ AskReturn

SpecRag == InitRag /\ [][NextRag]_vars

S_load_a_pdf_first == <<"l","o","a","d"," ","a"," ","P","D","F"," ","f","i","r","s","t">>

\* a load_pdf call before the k-th call has returned
LoadedBefore(k) ==
    \E j \in 1..(k - 1) : history[j].op = "load_pdf" /\ history[j].exc = "none"

\* what C12 says of the calls made so far and of the state they left
C12_LoadFirstSoFar ==
    /\ \A k \in 1..Len(history) :
          history[k].op = "ask_question" =>
              /\ (history[k].exc = "ValueError"
                    /\ Contains(history[k].msg, S_load_a_pdf_first))
                 <=> ~LoadedBefore(k)
              /\ LoadedBefore(k) => history[k].effects = <<"process_question">>
    /\ LoadedBefore(Len(history) + 1) => is_loaded /\ chain # NoChain

\* C12: in every sequence of load_pdf and ask_question calls on one object,
\* ask_question raises ValueError with a message containing "load a PDF first"
\* exactly when no earlier load_pdf has returned; after a load_pdf has returned
\* is_loaded stays true and chain stays set over every later call, and every
\* later question is passed to process_question.
C12_LoadFirst ==
    /\ []C12_LoadFirstSoFar
    /\ [][is_loaded /\ chain # NoChain => is_loaded' /\ chain' # NoChain]_vars

\* a question before the load is refused, one after it is answered
C12_Witness ==
    /\ Len(history) = 3
    /\ history[1].op = "ask_question" /\ history[1].msg = S_msg_load_first
    /\ history[2].op = "load_pdf" /\ history[2].exc = "none"
    /\ history[3].op = "ask_question" /\ history[3].exc = "none"
    /\ is_loaded

\* C13: process_pdf checks its path in a fixed order before any side effect:
\* an empty or non-string path raises ValueError; otherwise a path that does
\* not exist raises FileNotFoundError, whatever its suffix; otherwise a path
\* not ending in ".pdf" (case-insensitive) raises ValueError; none of the three
\* deletes the database directory or starts the ingestion, which happen only
\* for a path that passes the three tests.
C13_ValidationOrder ==
    \A k \in 1..Len(history) :
        history[k].op = "load_pdf" =>
            LET path == history[k].arg
                h    == history[k]
            IN  IF ~path.isStr \/ path.s = <<>>
                THEN h.exc = "ValueError" /\ h.effects = <<>>
                ELSE IF path.s \notin ExistingFiles
                THEN h.exc = "FileNotFoundError" /\ h.effects = <<>>
                ELSE IF ~EndsWith(Lower(path.s), S_pdf_suffix)
                THEN h.exc = "ValueError" /\ h.msg # S_msg_path_empty
                     /\ h.effects = <<>>
                ELSE /\ h.exc \notin {"ValueError", "FileNotFoundError"}
                     /\ Len(h.effects) >= 2
                     /\ h.effects[1] = "rmtree" /\ h.effects[2] = "ingest"

\* a missing file without the suffix, an existing file without it, and an
\* existing file with the suffix in capitals
C13_Witness ==
    /\ Len(history) = 3
    /\ history[1].arg = StrPath(F_missing_txt) /\ history[1].exc = "FileNotFoundError"
    /\ history[2].arg = StrPath(F_notes_txt) /\ history[2].exc = "ValueError"
    /\ history[3].arg = StrPath(F_doc_PDF) /\ history[3].exc = "none"
    /\ history[3].effects = PipelineSteps

----------------------------------------------------------------------------
(* Further properties of extract_disambiguation_content.                   *)

\* the labels of the elements selector i yields over the whole page that pass
\* the test of lines 323-327, in document order
AcceptedLabels(s, i) ==
    LET acc == SelectSeq(Selected(s, i), OptionAccepted)
    IN  [j \in 1..Len(acc) |-> Strip(acc[j].text)]

\* the first selector that yields an accepted candidate, 0 when none does
FirstSelector(s) ==
    IF \A i \in 1..4 : AcceptedLabels(s, i) = <<>> THEN 0
    ELSE SetMin({i \in 1..4 : AcceptedLabels(s, i) # <<>>})

\* the distinct elements of a list, in the order of their first occurrence
FirstSeen(xs) ==
    LET first == {j \in 1..Len(xs) : \A k \in 1..(j - 1) : xs[k] # xs[j]}
    IN  [j \in 1..Cardinality(first) |->
            xs[CHOOSE m \in first : Cardinality({k \in first : k <= m}) = j]]

\* C21: the bulleted labels are the first min(n, d) distinct accepted labels,
\* in document order, of the first selector that yields an accepted candidate,
\* d being the number of distinct accepted labels of that selector over the
\* whole page; no label of a later selector is added.
C21_FirstSelectorDistinct ==
    pc = "extracted" =>
        BulletLabels(ret) =
            IF FirstSelector(soup) = 0 THEN <<>>
            ELSE Take(FirstSeen(AcceptedLabels(soup, FirstSelector(soup))), n)

----------------------------------------------------------------------------
(* Further properties of fetch_top_wikipedia_results.                      *)

\* the query is empty, not a string, or is "", "none" or "null" once trimmed
\* and lower-cased
Defaulted(q) ==
    \/ ~q.isStr
    \/ q.s = <<>>
    \/ Lower(Strip(q.s)) \in {<<>>, S_none, S_null}

\* the topic the call works with: the default topic, or the query trimmed
EffectiveTopic == IF Defaulted(query) THEN S_artillery ELSE Strip(query.s)

\* C22: a query that is empty, not a string or, trimmed, one of "", "none",
\* "null" in any letter case is handled as the query "artillery" would be, and
\* any other query is used trimmed: the cleaned query and the direct address
\* are those of that topic, every argument handed to the external services
\* and every returned field built from the query is built from that topic.
C22_DefaultTopic ==
    pc # "start" =>
        /\ cleaned_query = EffectiveTopic
        /\ direct_url = DirectUrl(EffectiveTopic)
        /\ \A i \in 1..Len(calls) :
              /\ calls[i].call = "GET" => calls[i].arg = DirectUrl(EffectiveTopic)
              /\ calls[i].call = "search" => calls[i].arg = EffectiveTopic
              /\ (calls[i].call = "page" /\ i = 2 /\ calls[1].outcome = "200") =>
                    calls[i].arg = ReplaceChar(EffectiveTopic, " ", "_")
        /\ pc = "return_155" =>
              ret = << Doc(EffectiveTopic \o S_disambig_title_suffix,
                           extract_disambiguation_content(soup, EffectiveTopic, n),
                           DirectUrl(EffectiveTopic), TRUE) >>
        /\ pc = "return_178" =>
              ret = << Doc(EffectiveTopic, extract_manual_content(soup, sentences),
                           DirectUrl(EffectiveTopic), FALSE) >>
        /\ pc = "return_192" =>
              /\ ret[1].title = EffectiveTopic
              /\ ret[1].source_url = DirectUrl(EffectiveTopic)
        /\ pc \in {"return_194", "return_228"} =>
              ret = get_fallback_content(EffectiveTopic)
        /\ pc = "return_222" =>
              \A i \in 1..Len(ret) :
                  ret[i].is_disambiguation =>
                      Head(SplitNL(ret[i].content))
                          = <<"'">> \o EffectiveTopic \o S_may_refer_suffix

\* the query " NULL" followed by a line break went through the direct lookup,
\* the search and a candidate
C22_Witness ==
    /\ pc = "return_222"
    /\ query.isStr /\ query.s # S_null /\ Lower(Strip(query.s)) = S_null
    /\ cleaned_query = S_artillery
    /\ calls[1].arg = DirectUrl(S_artillery)
    /\ Len(ret) >= 1 /\ ret[1].is_disambiguation

\* C23: the returned list has at most max(1, n) elements: the returns of the
\* direct lookup, of the manual extraction and of the placeholder hold exactly
\* one element, the return of the search path at most n.
C23_AtMostN ==
    Returned =>
        /\ Len(ret) <= (IF n > 1 THEN n ELSE 1)
        /\ pc # "return_222" => Len(ret) = 1
        /\ pc = "return_222" => Len(ret) <= n

\* the search answered two titles that pass the filter and n is 1
C23_Witness ==
    /\ pc = "return_222"
    /\ n = 1
    /\ Len(Surviving(search_results)) = 2
    /\ Len(ret) = 1

----------------------------------------------------------------------------
(* Further properties of the SimpleRAG object.                             *)

\* the step is a load_pdf call that raised
LoadPdfRaised ==
    /\ Len(history') = Len(history) + 1
    /\ history'[Len(history')].op = "load_pdf"
    /\ history'[Len(history')].exc # "none"

\* C24: a load_pdf call that raises, in the validation of the path or in the
\* ingestion and chain creation, leaves chain and is_loaded as they were, in
\* every state of the object.
C24_FailedLoadFrame ==
    [][LoadPdfRaised => chain' = chain /\ is_loaded' = is_loaded]_vars

\* a load refused by the validation on a fresh object, a successful load, and
\* a load that failed in the ingestion: the chain is still that of the second
\* call
C24_Witness ==
    /\ Len(history) = 3
    /\ history[1].op = "load_pdf" /\ history[1].exc = "FileNotFoundError"
    /\ history[2].op = "load_pdf" /\ history[2].exc = "none"
    /\ history[3].op = "load_pdf" /\ history[3].exc = "OtherError"
    /\ history[3].effects = <<"rmtree", "ingest">>
    /\ is_loaded /\ chain = 2

----------------------------------------------------------------------------
(* Termination of fetch_top_wikipedia_results.  Every external call        *)
(* returns or raises (the GETs have a timeout), so the function always     *)
(* takes its next step: weak fairness of Next.                             *)

\* No branch of the cascade tests the text of the query or the sentence count
\* (lines 130-228 read them only to build strings), so the runs are started from
\* one defaulted and one ordinary query.
LiveQueries == {NonStrQuery, StrQuery(<<" ","N","e","w"," ","Y","o","r","k"," ">>)}

InitLive == Init /\ query \in LiveQueries /\ sentences = 1

\* The interpreter runs the function to its end: a step that can be taken is
\* taken, every external call having returned or raised.
SpecLive == InitLive /\ [][Next]_vars /\ WF_vars(Next)

\* the external calls made so far stay within the budget and in cascade order
CallBudget ==
    /\ Cardinality(CallIndexes("GET")) <= 2
    /\ \A i \in CallIndexes("GET") : calls[i].arg = direct_url
    /\ Cardinality(CallIndexes("search")) <= 1
    /\ Cardinality(CallIndexes("page")) <= n + 1
    /\ calls # <<>> => calls[1].call = "GET"
    /\ \A i \in CallIndexes("GET") : i = 1 \/ (SearchIndex > 0 /\ i = SearchIndex + 1)
    /\ \A i \in CallIndexes("page") : i > 2 => SearchIndex > 0 /\ i > SearchIndex
    /\ \A i \in 1..(Len(calls) - 1) :
          ~(calls[i + 1].call = calls[i].call /\ calls[i + 1].arg = calls[i].arg)

\* C25: every invocation eventually returns, and at every moment it has made
\* at most 2 GETs, both of the direct address, at most 1 search call and at
\* most n + 1 page lookups, the direct GET first, candidate lookups and the
\* second GET only after the search, and no call made twice in a row.
C25_TerminatesWithinBudget == <>Returned /\ []CallBudget

\* the direct GET, the direct page lookup, the search and n = 2 candidate
\* lookups were made before the return
C25_Witness ==
    /\ pc = "return_222"
    /\ n = 2
    /\ Cardinality(CallIndexes("page")) = 3
    /\ Cardinality(CallIndexes("search")) = 1
    /\ Cardinality(CallIndexes("GET")) = 1

====
